---------------------------- MODULE Spec2Model ----------------------------
(***************************************************************************)
(* Frame broadcast and transport adaptation of the virtual browser:        *)
(*   BrowserManager (browser_controller.py): listener registry and the     *)
(*     Page.screencastFrame handler that fans a frame out to the listeners *)
(*   websocket_endpoint (main.py): the /ws byte-stream connection handler  *)
(*     with its send_frames and receive_inputs tasks                       *)
(*   BrowserVideoTrack, RTCManager (streaming.py): the media track and the *)
(*     peer-connection sessions.                                           *)
(* asyncio is cooperative: code between two awaits that really suspend is  *)
(* one atomic step, so every action below runs from one suspension point   *)
(* to the next.                                                            *)
(***************************************************************************)
EXTENDS Integers, Sequences, FiniteSets

\* Bounds of the model
NumConns == 2
NumSessions == 2
MaxFrames == 2
MaxPulls == 3
NumStarts == 2
NumStops == 1

\* asyncio.Queue(maxsize=1) of add_listener and of BrowserVideoTrack
QueueMaxSize == 1

Conns == 1..NumConns
PCs == 1..NumSessions
Starts == 1..NumStarts
Stops == 1..NumStops

WsQ(c) == <<"ws", c>>
TrackQ(p) == <<"track", p>>
QueueIds == {WsQ(c) : c \in Conns} \cup {TrackQ(p) : p \in PCs}

VARIABLES
    \* BrowserManager
    listeners,      \* self.listeners: the set of registered queues
    queue,          \* content of every asyncio.Queue, oldest first
    last_frame,     \* self.last_frame (0: not yet set); frames are numbered in arrival order
    frame_callback, \* browser_manager.frame_callback (0: None, p: on_frame of track p)
    \* websocket_endpoint, one handler per connection
    wsState,        \* position of the handler: idle, gather, closing, done
    sender,         \* position of send_frames: none, get, send, done, cancelled
    receiver,       \* position of receive_inputs: none, recv, done, cancelled
    senderFrame,    \* the frame send_frames took from the queue and is writing
    conn,           \* the websocket: open, lost (peer gone or transport error), closed
    lastSent,       \* the last frame written to the websocket (0: none yet)
    removeCalls,    \* calls of remove_listener made by the handler
    \* RTCManager, one peer connection per handled offer
    pcs,            \* self.pcs
    pcState,        \* pc.connectionState (none: not created)
    pcClose,        \* progress of pc.close(): no, closing, closed
    closer,         \* who runs the close in progress: none, cb, shutdown
    cbPending,      \* on_connectionstatechange tasks scheduled, not yet run
    cbWaiting,      \* on_connectionstatechange tasks awaiting a close run by another task
    closeEffects,   \* how many times the transport of the pc was actually closed
    offer,          \* position of handle_offer: none, negotiating, answered, raised
    ended,          \* BrowserVideoTrack._ended
    recvPos,        \* position of BrowserVideoTrack.recv: idle, get
    recvSince,      \* last_frame when the pending recv started
    timestamp,      \* the timestamp the next recv of the track gets, in frame periods
    pts,            \* the local pts of the pending recv (-1: no recv pending)
    lastPts,        \* the pts stamped on the last frame recv returned (-1: none yet)
    recvResult,     \* how the last recv ended: none, frame, noframe, raised
    sh,             \* position of RTCManager.shutdown: idle, gather, returned
    shTargets,      \* the connections shutdown collected close() coroutines for
    shStarted,      \* close() coroutines of shutdown that have started
    shDone,         \* close() coroutines of shutdown that have completed
    rtcError,       \* an exception escaped a callback or shutdown
    \* The browser of BrowserManager. A browser instance, with its playwright
    \* driver, its context, its page and its CDP session, is named after the
    \* /start request that launches it; 0 stands for None
    playwright,     \* self.playwright
    browser,        \* self.browser
    context,        \* self.context
    cdp_client,     \* self._cdp_client
    casting,        \* the Frame Sources: the instances whose CDP session has the handler
                    \* subscribed and a screencast started
    dead,           \* the instances a stop has closed (context, browser or driver)
    startPos,       \* position of each /start request
    stopPos,        \* position of each /stop request
    ackFor,         \* the Frame Source of the last screencast event handled
    ackVia          \* the CDP session the acknowledgement of that event was sent on

bcVars == <<listeners, queue, last_frame, frame_callback>>
wsVars == <<wsState, sender, receiver, senderFrame, conn, lastSent, removeCalls>>
pcVars == <<pcs, pcState, pcClose, closer, cbPending, cbWaiting, closeEffects, offer, rtcError>>
ptsVars == <<timestamp, pts, lastPts, recvResult>>
trackVars == <<ended, recvPos, recvSince, ptsVars>>
shVars == <<sh, shTargets, shStarted, shDone>>
lifeVars == <<playwright, browser, context, cdp_client, casting, dead, startPos, stopPos,
             ackFor, ackVia>>
vars == <<bcVars, wsVars, pcVars, trackVars, shVars, lifeVars>>

-----------------------------------------------------------------------------
\* asyncio.Queue

Full(q) == Len(q) >= QueueMaxSize

\* queue.put_nowait(f): raises QueueFull, caught by the caller, when full
PutNowait(q, f) == IF Full(q) THEN q ELSE Append(q, f)

\* mutant: get leaves the frame in the queue
GetNowaitKeeps(q) == q

\* queue.get_nowait() for its effect on the queue
GetNowait(q) == IF q = <<>> THEN q ELSE Tail(q)

\* mutant: the occupant of a full queue is kept and the new frame is dropped
OfferKeepOldest(q, f) == PutNowait(q, f)

\* mutant: the frame is appended to an unbounded queue
OfferUnbounded(q, f) == Append(q, f)

\* one iteration of the broadcast loop of _on_screencast_frame
Offer(q, f) == PutNowait(IF Full(q) THEN GetNowait(q) ELSE q, f)

\* mutant: a full queue makes put_nowait raise out of the loop, so that no
\* listener is served once one of them is full
BroadcastStopsAtFull(f) ==
    [q \in QueueIds |->
        IF q \in listeners /\ \A r \in listeners : ~Full(queue[r])
        THEN Offer(queue[q], f) ELSE queue[q]]

\* mutant: every queue that exists is served, registered or not
BroadcastAll(f) == [q \in QueueIds |-> Offer(queue[q], f)]

\* for queue in list(self.listeners): ...
Broadcast(f) ==
    [q \in QueueIds |-> IF q \in listeners THEN Offer(queue[q], f) ELSE queue[q]]

\* self.listeners.add(queue)
AddListener(ls, q) == ls \cup {q}

\* mutant: remove_listener leaves the registry as it is
RemoveListenerNoop(ls, q) == ls

\* self.listeners.discard(queue)
RemoveListener(ls, q) == ls \ {q}

\* set.discard raises for no argument, member or not
RemoveListenerRaises(ls, q) == FALSE

-----------------------------------------------------------------------------
\* The CDP session the handler sends Page.screencastFrameAck on
AckSession == cdp_client

\* BrowserManager._on_screencast_frame: one Page.screencastFrame event of a
\* Frame Source. The broadcast loop has no await; the handler then sends the
\* acknowledgement on self._cdp_client, with or without data, and catches
\* its failure, which therefore leaves the same state as its success.
OnScreencastFrame(hasData) ==
    /\ IF hasData
       THEN /\ last_frame < MaxFrames
            /\ last_frame' = last_frame + 1
            /\ queue' = Broadcast(last_frame + 1)
       ELSE UNCHANGED <<last_frame, queue>>
    /\ \E b \in casting :
          /\ ackFor' = b
          /\ ackVia' = AckSession
    /\ UNCHANGED <<listeners, frame_callback, wsVars, pcVars, trackVars, shVars,
                   playwright, browser, context, cdp_client, casting, dead,
                   startPos, stopPos>>

-----------------------------------------------------------------------------
\* /start and /stop: BrowserManager.start and BrowserManager.stop

otherVars == <<bcVars, wsVars, pcVars, trackVars, shVars>>

\* A step of start on an instance that a stop has closed raises
StartStep(r, from, to) ==
    /\ startPos[r] = from
    /\ startPos' = [startPos EXCEPT ![r] = IF r \in dead THEN "raised" ELSE to]

\* POST /start: browser_manager.start() is called if self.browser is not
\* set, and awaits async_playwright().start(); otherwise the request
\* returns status started at once. Requests are numbered in arrival order.
StartCall(r) ==
    /\ startPos[r] = "none"
    /\ \A q \in Starts : q < r => startPos[q] # "none"
    /\ startPos' = [startPos EXCEPT ![r] = IF browser = 0 THEN "playwright" ELSE "returned"]
    /\ UNCHANGED <<playwright, browser, context, cdp_client, casting, dead, stopPos,
                   ackFor, ackVia, otherVars>>

\* self.playwright = ...; await self.playwright.chromium.launch(...)
StartPlaywright(r) ==
    /\ StartStep(r, "playwright", "launch")
    /\ playwright' = r
    /\ UNCHANGED <<browser, context, cdp_client, casting, dead, stopPos,
                   ackFor, ackVia, otherVars>>

\* self.browser = ...; await self.browser.new_context(...)
StartLaunch(r) ==
    /\ StartStep(r, "launch", "context")
    /\ browser' = IF r \in dead THEN browser ELSE r
    /\ UNCHANGED <<playwright, context, cdp_client, casting, dead, stopPos,
                   ackFor, ackVia, otherVars>>

\* self.context = ...; self.page = await self.context.new_page(); await
\* self.page.goto(...)
StartContext(r) ==
    /\ StartStep(r, "context", "page")
    /\ context' = IF r \in dead THEN context ELSE r
    /\ UNCHANGED <<playwright, browser, cdp_client, casting, dead, stopPos,
                   ackFor, ackVia, otherVars>>

\* The page is created and loaded (or goto raises); await
\* self.context.new_cdp_session(self.page)
StartPage(r, ok) ==
    /\ startPos[r] = "page"
    /\ startPos' = [startPos EXCEPT ![r] = IF r \in dead \/ ~ok THEN "raised" ELSE "cdp"]
    /\ UNCHANGED <<playwright, browser, context, cdp_client, casting, dead, stopPos,
                   ackFor, ackVia, otherVars>>

\* self._cdp_client = ...; the handler is subscribed to Page.screencastFrame
\* and Page.startScreencast is sent: the instance is a Frame Source
StartCdp(r) ==
    /\ StartStep(r, "cdp", "screencast")
    /\ cdp_client' = IF r \in dead THEN cdp_client ELSE r
    /\ casting' = IF r \in dead THEN casting ELSE casting \cup {r}
    /\ UNCHANGED <<playwright, browser, context, dead, stopPos, ackFor, ackVia, otherVars>>

\* Page.startScreencast is answered: start returns and the request returns
\* status started
StartReturn(r) ==
    /\ StartStep(r, "screencast", "returned")
    /\ UNCHANGED <<playwright, browser, context, cdp_client, casting, dead, stopPos,
                   ackFor, ackVia, otherVars>>

\* The fields stop closes, in the order it closes them
StopStages == <<"context", "browser", "playwright">>

\* The instance the field of stage i refers to
StopField(i) == <<context, browser, playwright>>[i]

\* The first stage after stage i whose field is set, or 4 for none: stop
\* closes nothing for a field that is not set, and does not suspend there
StopNextStage(i) ==
    IF \E j \in (i + 1)..3 : StopField(j) # 0
    THEN CHOOSE j \in (i + 1)..3 : StopField(j) # 0 /\ \A k \in (i + 1)..(j - 1) : StopField(k) = 0
    ELSE 4

\* stop goes on after stage i: it awaits the close of the next field that is
\* set, which ends the screencast of that instance, or returns. No field is
\* reset.
StopFrom(s, i) ==
    LET j == StopNextStage(i) IN
    IF j = 4
    THEN /\ stopPos' = [stopPos EXCEPT ![s] = "returned"]
         /\ UNCHANGED <<casting, dead>>
    ELSE /\ stopPos' = [stopPos EXCEPT ![s] = StopStages[j]]
         /\ casting' = casting \ {StopField(j)}
         /\ dead' = dead \cup {StopField(j)}

\* POST /stop: browser_manager.stop() is called
StopCall(s) ==
    /\ stopPos[s] = "none"
    /\ \A q \in Stops : q < s => stopPos[q] # "none"
    /\ StopFrom(s, 0)
    /\ UNCHANGED <<playwright, browser, context, cdp_client, startPos,
                   ackFor, ackVia, otherVars>>

\* A close that stop awaited is over
StopResume(s) ==
    /\ \E i \in 1..3 : stopPos[s] = StopStages[i] /\ StopFrom(s, i)
    /\ UNCHANGED <<playwright, browser, context, cdp_client, startPos,
                   ackFor, ackVia, otherVars>>

-----------------------------------------------------------------------------
\* websocket_endpoint

\* await websocket.accept(); queue = await add_listener(); create the two tasks.
\* Connections are numbered in the order they are accepted.
WsAccept(c) ==
    /\ wsState[c] = "idle"
    /\ \A b \in Conns : b < c => wsState[b] # "idle"
    /\ wsState' = [wsState EXCEPT ![c] = "gather"]
    /\ listeners' = AddListener(listeners, WsQ(c))
    /\ queue' = [queue EXCEPT ![WsQ(c)] = <<>>]
    /\ sender' = [sender EXCEPT ![c] = "get"]
    /\ receiver' = [receiver EXCEPT ![c] = "recv"]
    /\ UNCHANGED <<last_frame, frame_callback, senderFrame, conn,
                   lastSent, removeCalls, pcVars, trackVars, shVars, lifeVars>>

\* send_frames: frame = await queue.get()
SenderGet(c) ==
    /\ sender[c] = "get"
    /\ queue[WsQ(c)] # <<>>
    /\ senderFrame' = [senderFrame EXCEPT ![c] = Head(queue[WsQ(c)])]
    /\ queue' = [queue EXCEPT ![WsQ(c)] = GetNowait(@)]
    /\ sender' = [sender EXCEPT ![c] = "send"]
    /\ UNCHANGED <<listeners, last_frame, frame_callback, wsState,
                   receiver, conn, lastSent, removeCalls, pcVars, trackVars, shVars, lifeVars>>

\* send_frames: await websocket.send_bytes(frame); an exception ends the loop
SenderSend(c) ==
    /\ sender[c] = "send"
    /\ IF conn[c] = "open"
       THEN /\ lastSent' = [lastSent EXCEPT ![c] = senderFrame[c]]
            /\ sender' = [sender EXCEPT ![c] = "get"]
       ELSE /\ sender' = [sender EXCEPT ![c] = "done"]
            /\ UNCHANGED lastSent
    /\ senderFrame' = [senderFrame EXCEPT ![c] = 0]
    /\ UNCHANGED <<bcVars, wsState, receiver, conn, removeCalls,
                   pcVars, trackVars, shVars, lifeVars>>

\* The text messages a peer can send: a JSON object with an action, a JSON
\* object without one, and text that json.loads (or message.get) rejects
Messages == {"action", "noaction", "malformed"}

\* A message and, for a message with an action, what handle_input does with it
Inputs == {<<m, ok>> \in Messages \X BOOLEAN : m = "action" \/ ok}

\* receive_inputs: one iteration. receive_text raises when the connection is
\* lost; json.loads raises on a malformed message; handle_input is awaited
\* for a message with an action and returns or raises (sinkOk); what it does
\* to the page is outside this model. Every exception ends the loop.
ReceiverRecv(c, m, sinkOk) ==
    /\ receiver[c] = "recv"
    /\ IF conn[c] # "open" \/ m = "malformed" \/ (m = "action" /\ ~sinkOk)
       THEN receiver' = [receiver EXCEPT ![c] = "done"]
       ELSE UNCHANGED receiver
    /\ UNCHANGED <<bcVars, wsState, sender, senderFrame, conn, lastSent, removeCalls,
                   pcVars, trackVars, shVars, lifeVars>>

\* The peer disconnects, or the transport breaks, while the loops run (once
\* the handler is in its finally block nothing reads the connection)
PeerClose(c) ==
    /\ wsState[c] = "gather"
    /\ conn[c] = "open"
    /\ conn' = [conn EXCEPT ![c] = "lost"]
    /\ UNCHANGED <<bcVars, wsState, sender, receiver, senderFrame, lastSent, removeCalls,
                   pcVars, trackVars, shVars, lifeVars>>

\* task.cancel(): a task that has finished stays as it is
Cancel(pos) == IF pos = "done" THEN pos ELSE "cancelled"

\* The finally block up to its first suspension: cancel both tasks, call
\* remove_listener (which never suspends), start websocket.close()
WsFinally(c) ==
    /\ sender' = [sender EXCEPT ![c] = Cancel(@)]
    /\ receiver' = [receiver EXCEPT ![c] = Cancel(@)]
    /\ senderFrame' = [senderFrame EXCEPT ![c] = 0]
    /\ removeCalls' = [removeCalls EXCEPT ![c] = @ + 1]
    /\ listeners' = RemoveListener(listeners, WsQ(c))
    /\ wsState' = [wsState EXCEPT ![c] = "closing"]
    /\ UNCHANGED <<queue, last_frame, frame_callback, conn, lastSent,
                   pcVars, trackVars, shVars, lifeVars>>

\* await asyncio.gather(sender_task, receiver_task) returns: both tasks ended
WsGatherDone(c) ==
    /\ wsState[c] = "gather"
    /\ sender[c] = "done"
    /\ receiver[c] = "done"
    /\ WsFinally(c)

\* The handler task is cancelled while it awaits the gather: CancelledError
\* is no Exception, so only the finally block runs
WsCancelled(c) ==
    /\ wsState[c] = "gather"
    /\ WsFinally(c)

\* await websocket.close() is over (its failure is swallowed): the handler
\* ends, and with it the last references to its queue and its two tasks
WsCloseDone(c) ==
    /\ wsState[c] = "closing"
    /\ wsState' = [wsState EXCEPT ![c] = "done"]
    /\ conn' = [conn EXCEPT ![c] = "closed"]
    /\ queue' = [queue EXCEPT ![WsQ(c)] = <<>>]
    /\ sender' = [sender EXCEPT ![c] = "none"]
    /\ receiver' = [receiver EXCEPT ![c] = "none"]
    /\ UNCHANGED <<listeners, last_frame, frame_callback, senderFrame, lastSent,
                   removeCalls, pcVars, trackVars, shVars, lifeVars>>

-----------------------------------------------------------------------------
\* BrowserVideoTrack

\* on_frame, the closure __init__ stores in browser_manager.frame_callback:
\* drop the occupant of a full queue, then put the frame. No code of the
\* repository reads frame_callback, so no action below applies it.
on_frame(q, f) == PutNowait(IF Full(q) THEN GetNowait(q) ELSE q, f)

\* BrowserVideoTrack.on_ended. It is a plain method: handle_offer does not
\* register it for the track's "ended" event and nothing calls it, so it is
\* no disjunct of Next.
on_ended(p) ==
    /\ ended' = [ended EXCEPT ![p] = TRUE]
    /\ frame_callback' = 0
    /\ UNCHANGED <<listeners, queue, last_frame, wsVars, lifeVars, pcVars,
                   recvPos, recvSince, ptsVars, shVars>>

\* mutant: every call gets the timestamp of the call before
NextTimestampStuck(t) == t

\* pts, time_base = await self.next_timestamp(): the timestamps of a track
\* start at 0 and advance by one frame period per call
NextTimestamp(t) == t + 1

\* What av.open and container.decode make of the bytes of a frame: a
\* picture, no picture at all, or an exception
DecodeOutcomes == {"frame", "empty", "raises"}

\* What recv does with the outcome of the decoding: the first picture is
\* stamped and returned; otherwise, the exception being caught, None
RecvResult(d) == IF d = "frame" THEN "frame" ELSE "noframe"

\* BrowserVideoTrack.recv, one step of the coroutine. Called by the RTP
\* sender of a connected peer connection: an ended track returns None at
\* once, otherwise the call takes its timestamp and awaits queue.get(); when
\* a frame is there the call decodes it and returns.
recv(p) ==
    /\ IF recvPos[p] = "idle"
       THEN /\ pcState[p] = "connected"
            /\ pcClose[p] = "no"
            /\ IF ended[p]
               THEN UNCHANGED <<recvPos, recvSince, ptsVars>>
               ELSE /\ timestamp[p] < MaxPulls
                    /\ recvPos' = [recvPos EXCEPT ![p] = "get"]
                    /\ recvSince' = [recvSince EXCEPT ![p] = last_frame]
                    /\ pts' = [pts EXCEPT ![p] = timestamp[p]]
                    /\ timestamp' = [timestamp EXCEPT ![p] = NextTimestamp(@)]
                    /\ UNCHANGED <<lastPts, recvResult>>
            /\ UNCHANGED queue
       ELSE /\ queue[TrackQ(p)] # <<>>
            /\ queue' = [queue EXCEPT ![TrackQ(p)] = GetNowait(@)]
            /\ recvPos' = [recvPos EXCEPT ![p] = "idle"]
            /\ recvSince' = [recvSince EXCEPT ![p] = 0]
            /\ pts' = [pts EXCEPT ![p] = -1]
            /\ \E d \in DecodeOutcomes :
                  /\ recvResult' = [recvResult EXCEPT ![p] = RecvResult(d)]
                  /\ lastPts' = [lastPts EXCEPT ![p] =
                                    IF RecvResult(d) = "frame" THEN pts[p] ELSE @]
            /\ UNCHANGED timestamp
    /\ UNCHANGED <<listeners, last_frame, frame_callback, ended,
                   wsVars, lifeVars, pcVars, shVars>>

\* Whoever holds browser_manager.frame_callback calls it with the latest
\* frame. No code of the repository does: this is the step of a caller of
\* the hook, under which recv can be followed to its return.
FrameHook ==
    /\ frame_callback # 0
    /\ last_frame > 0
    /\ queue' = [queue EXCEPT ![TrackQ(frame_callback)] = on_frame(@, last_frame)]
    /\ UNCHANGED <<listeners, last_frame, frame_callback, wsVars, pcVars, trackVars, shVars, lifeVars>>

-----------------------------------------------------------------------------
\* RTCManager

Terminal == {"failed", "closed"}

\* mutant: self.pcs.remove(pc) raises KeyError when pc is not in the set
RemoveRaises(S, p) == p \notin S

\* self.pcs.discard(pc) never raises
DiscardRaises(S, p) == FALSE

\* self.pcs.discard(pc)
Discard(S, p) == S \ {p}

\* handle_offer up to its first suspension (await pc.setRemoteDescription):
\* the connection is created and added to self.pcs, a BrowserVideoTrack is
\* built (its own queue, _ended, frame_callback) and the callbacks are set
HandleOffer(p) ==
    /\ offer[p] = "none"
    /\ \A r \in PCs : r < p => offer[r] # "none"
    /\ offer' = [offer EXCEPT ![p] = "negotiating"]
    /\ pcState' = [pcState EXCEPT ![p] = "new"]
    /\ pcs' = pcs \cup {p}
    /\ queue' = [queue EXCEPT ![TrackQ(p)] = <<>>]
    /\ ended' = [ended EXCEPT ![p] = FALSE]
    /\ frame_callback' = p
    /\ UNCHANGED <<listeners, last_frame, wsVars, lifeVars, pcClose, closer,
                   cbPending, cbWaiting, closeEffects, rtcError, recvPos, recvSince,
                   ptsVars, shVars>>

\* handle_offer returns the local description, of type answer
OfferAnswered(p) ==
    /\ offer[p] = "negotiating"
    /\ pcClose[p] = "no"
    /\ offer' = [offer EXCEPT ![p] = "answered"]
    /\ UNCHANGED <<bcVars, wsVars, lifeVars, pcs, pcState, pcClose, closer, cbPending, cbWaiting,
                   closeEffects, rtcError, trackVars, shVars>>

\* setRemoteDescription, createAnswer or setLocalDescription raises: the
\* exception leaves handle_offer, which has no handler for it
OfferRaised(p) ==
    /\ offer[p] = "negotiating"
    /\ offer' = [offer EXCEPT ![p] = "raised"]
    /\ UNCHANGED <<bcVars, wsVars, lifeVars, pcs, pcState, pcClose, closer, cbPending, cbWaiting,
                   closeEffects, rtcError, trackVars, shVars>>

\* The connection states the transport goes through by itself
Transitions ==
    {<<"new", "connecting">>, <<"connecting", "connected">>,
     <<"connecting", "failed">>, <<"connected", "failed">>}

\* The transport, started once the local description is set, reports a new
\* connection state: a connectionstatechange event, for which an
\* on_connectionstatechange task is scheduled
PcTransition(p, s) ==
    /\ offer[p] = "answered"
    /\ pcClose[p] = "no"
    /\ <<pcState[p], s>> \in Transitions
    /\ pcState' = [pcState EXCEPT ![p] = s]
    /\ cbPending' = [cbPending EXCEPT ![p] = @ + 1]
    /\ UNCHANGED <<bcVars, wsVars, lifeVars, pcs, pcClose, closer, cbWaiting, closeEffects,
                   offer, rtcError, trackVars, shVars>>

\* on_connectionstatechange runs: in a terminal state it awaits pc.close()
\* (which starts the closure, or waits for the one in progress, or returns
\* at once when the connection is closed) and then discards the connection
CbRun(p) ==
    /\ cbPending[p] > 0
    /\ cbPending' = [cbPending EXCEPT ![p] = @ - 1]
    /\ IF pcState[p] \in Terminal
       THEN CASE pcClose[p] = "no" ->
                  /\ pcClose' = [pcClose EXCEPT ![p] = "closing"]
                  /\ closer' = [closer EXCEPT ![p] = "cb"]
                  /\ closeEffects' = [closeEffects EXCEPT ![p] = @ + 1]
                  /\ UNCHANGED <<pcs, cbWaiting, rtcError>>
              [] pcClose[p] = "closing" ->
                  /\ cbWaiting' = [cbWaiting EXCEPT ![p] = @ + 1]
                  /\ UNCHANGED <<pcs, pcClose, closer, closeEffects, rtcError>>
              [] pcClose[p] = "closed" ->
                  /\ pcs' = Discard(pcs, p)
                  /\ rtcError' = (rtcError \/ DiscardRaises(pcs, p))
                  /\ UNCHANGED <<pcClose, closer, cbWaiting, closeEffects>>
       ELSE UNCHANGED <<pcs, pcClose, closer, cbWaiting, closeEffects, rtcError>>
    /\ UNCHANGED <<bcVars, wsVars, lifeVars, pcState, offer, trackVars, shVars>>

\* The closure in progress completes: the senders are stopped (a pending
\* recv is cancelled), the state becomes closed and its event is emitted,
\* and the task that ran the closure goes on without suspending: the
\* callback discards the connection, the coroutine of shutdown is done
PcCloseComplete(p) ==
    /\ pcClose[p] = "closing"
    /\ pcClose' = [pcClose EXCEPT ![p] = "closed"]
    /\ pcState' = [pcState EXCEPT ![p] = "closed"]
    /\ cbPending' = [cbPending EXCEPT ![p] = @ + 1]
    /\ recvPos' = [recvPos EXCEPT ![p] = "idle"]
    /\ recvSince' = [recvSince EXCEPT ![p] = 0]
    /\ pts' = [pts EXCEPT ![p] = -1]
    /\ closer' = [closer EXCEPT ![p] = "none"]
    /\ IF closer[p] = "cb"
       THEN /\ pcs' = Discard(pcs, p)
            /\ rtcError' = (rtcError \/ DiscardRaises(pcs, p))
            /\ UNCHANGED shDone
       ELSE /\ shDone' = shDone \cup {p}
            /\ UNCHANGED <<pcs, rtcError>>
    /\ UNCHANGED <<bcVars, wsVars, lifeVars, cbWaiting, closeEffects, offer, ended,
                   timestamp, lastPts, recvResult, sh, shTargets, shStarted>>

\* A callback that waited for the closure run by another task resumes
CbResume(p) ==
    /\ cbWaiting[p] > 0
    /\ pcClose[p] = "closed"
    /\ cbWaiting' = [cbWaiting EXCEPT ![p] = @ - 1]
    /\ pcs' = Discard(pcs, p)
    /\ rtcError' = (rtcError \/ DiscardRaises(pcs, p))
    /\ UNCHANGED <<bcVars, wsVars, lifeVars, pcState, pcClose, closer, cbPending, closeEffects,
                   offer, trackVars, shVars>>

\* mutant: shutdown clears the set without waiting for the closures
ShutdownNoWait ==
    /\ sh = "idle"
    /\ sh' = "returned"
    /\ shTargets' = pcs
    /\ pcs' = {}
    /\ UNCHANGED <<bcVars, wsVars, lifeVars, pcState, pcClose, closer, cbPending, cbWaiting,
                   closeEffects, offer, rtcError, trackVars, shStarted, shDone>>

\* shutdown is called: one pc.close() coroutine per connection of self.pcs,
\* gathered. With no connection the gather is already done and shutdown
\* clears the set and returns without suspending.
ShutdownCall ==
    /\ sh = "idle"
    /\ shTargets' = pcs
    /\ IF pcs = {}
       THEN /\ sh' = "returned"
            /\ pcs' = {}
       ELSE /\ sh' = "gather"
            /\ UNCHANGED pcs
    /\ UNCHANGED <<bcVars, wsVars, lifeVars, pcState, pcClose, closer, cbPending, cbWaiting,
                   closeEffects, offer, rtcError, trackVars, shStarted, shDone>>

\* A pc.close() coroutine of the gather starts
ShClose(p) ==
    /\ sh = "gather"
    /\ p \in shTargets \ shStarted
    /\ shStarted' = shStarted \cup {p}
    /\ CASE pcClose[p] = "no" ->
              /\ pcClose' = [pcClose EXCEPT ![p] = "closing"]
              /\ closer' = [closer EXCEPT ![p] = "shutdown"]
              /\ closeEffects' = [closeEffects EXCEPT ![p] = @ + 1]
              /\ UNCHANGED shDone
         [] pcClose[p] = "closing" ->
              UNCHANGED <<pcClose, closer, closeEffects, shDone>>
         [] pcClose[p] = "closed" ->
              /\ shDone' = shDone \cup {p}
              /\ UNCHANGED <<pcClose, closer, closeEffects>>
    /\ UNCHANGED <<bcVars, wsVars, lifeVars, pcs, pcState, cbPending, cbWaiting, offer, rtcError,
                   trackVars, sh, shTargets>>

\* A pc.close() coroutine of the gather that waited for a closure run by a
\* callback resumes
ShResume(p) ==
    /\ sh = "gather"
    /\ p \in shStarted \ shDone
    /\ pcClose[p] = "closed"
    /\ shDone' = shDone \cup {p}
    /\ UNCHANGED <<bcVars, wsVars, lifeVars, pcVars, trackVars, sh, shTargets, shStarted>>

\* The gather is done: self.pcs.clear() and shutdown returns
ShutdownReturn ==
    /\ sh = "gather"
    /\ shDone = shTargets
    /\ sh' = "returned"
    /\ pcs' = {}
    /\ UNCHANGED <<bcVars, wsVars, lifeVars, pcState, pcClose, closer, cbPending, cbWaiting,
                   closeEffects, offer, rtcError, trackVars, shTargets, shStarted, shDone>>

-----------------------------------------------------------------------------
\* The state after construction, but for the browser
InitRest ==
    /\ listeners = {}
    /\ queue = [q \in QueueIds |-> <<>>]
    /\ last_frame = 0
    /\ frame_callback = 0
    /\ wsState = [c \in Conns |-> "idle"]
    /\ sender = [c \in Conns |-> "none"]
    /\ receiver = [c \in Conns |-> "none"]
    /\ senderFrame = [c \in Conns |-> 0]
    /\ conn = [c \in Conns |-> "open"]
    /\ lastSent = [c \in Conns |-> 0]
    /\ removeCalls = [c \in Conns |-> 0]
    /\ pcs = {}
    /\ pcState = [p \in PCs |-> "none"]
    /\ pcClose = [p \in PCs |-> "no"]
    /\ closer = [p \in PCs |-> "none"]
    /\ cbPending = [p \in PCs |-> 0]
    /\ cbWaiting = [p \in PCs |-> 0]
    /\ closeEffects = [p \in PCs |-> 0]
    /\ offer = [p \in PCs |-> "none"]
    /\ ended = [p \in PCs |-> FALSE]
    /\ recvPos = [p \in PCs |-> "idle"]
    /\ recvSince = [p \in PCs |-> 0]
    /\ timestamp = [p \in PCs |-> 0]
    /\ pts = [p \in PCs |-> -1]
    /\ lastPts = [p \in PCs |-> -1]
    /\ recvResult = [p \in PCs |-> "none"]
    /\ sh = "idle"
    /\ shTargets = {}
    /\ shStarted = {}
    /\ shDone = {}
    /\ rtcError = FALSE

\* BrowserManager.__init__: no browser
InitBrowser ==
    /\ playwright = 0
    /\ browser = 0
    /\ context = 0
    /\ cdp_client = 0
    /\ casting = {}
    /\ dead = {}
    /\ startPos = [r \in Starts |-> "none"]
    /\ stopPos = [s \in Stops |-> "none"]
    /\ ackFor = 0
    /\ ackVia = 0

\* The browser once a first /start request has returned, with its screencast
\* active and no event handled yet
Streaming ==
    /\ startPos = [r \in Starts |-> IF r = 1 THEN "returned" ELSE "none"]
    /\ stopPos = [s \in Stops |-> "none"]
    /\ playwright = 1
    /\ browser = 1
    /\ context = 1
    /\ cdp_client = 1
    /\ casting = {1}
    /\ dead = {}
    /\ ackFor = 0
    /\ ackVia = 0

\* The state after construction
Init == InitRest /\ InitBrowser

\* The state in which frames are produced: a first /start has returned
InitStreaming == InitRest /\ Streaming

\* The Frame Source: the /start and /stop requests and the screencast events
NextLife ==
    \/ \E r \in Starts : StartCall(r)
    \/ \E r \in Starts : StartPlaywright(r)
    \/ \E r \in Starts : StartLaunch(r)
    \/ \E r \in Starts : StartContext(r)
    \/ \E r \in Starts, ok \in BOOLEAN : StartPage(r, ok)
    \/ \E r \in Starts : StartCdp(r)
    \/ \E r \in Starts : StartReturn(r)
    \/ \E s \in Stops : StopCall(s)
    \/ \E s \in Stops : StopResume(s)
    \/ \E d \in BOOLEAN : OnScreencastFrame(d)

\* The byte-stream side: the Frame Source, the Broadcaster and the /ws handlers
NextWs ==
    \/ \E d \in BOOLEAN : OnScreencastFrame(d)
    \/ \E c \in Conns : WsAccept(c)
    \/ \E c \in Conns : SenderGet(c)
    \/ \E c \in Conns : SenderSend(c)
    \/ \E c \in Conns, i \in Inputs : ReceiverRecv(c, i[1], i[2])
    \/ \E c \in Conns : PeerClose(c)
    \/ \E c \in Conns : WsGatherDone(c)
    \/ \E c \in Conns : WsCancelled(c)
    \/ \E c \in Conns : WsCloseDone(c)

\* The session manager: the sessions, their connection-state callbacks and
\* the shutdown of the manager (the pulls of the tracks are in NextTrack)
NextRtc ==
    \/ \E p \in PCs : HandleOffer(p)
    \/ \E p \in PCs : OfferAnswered(p)
    \/ \E p \in PCs : OfferRaised(p)
    \/ \E p \in PCs, s \in {"connecting", "connected", "failed"} : PcTransition(p, s)
    \/ \E p \in PCs : CbRun(p)
    \/ \E p \in PCs : PcCloseComplete(p)
    \/ \E p \in PCs : CbResume(p)
    \/ ShutdownCall
    \/ \E p \in PCs : ShClose(p)
    \/ \E p \in PCs : ShResume(p)
    \/ ShutdownReturn

\* The media path: the Frame Source, the sessions and the pulls of their tracks
NextTrack ==
    \/ \E d \in BOOLEAN : OnScreencastFrame(d)
    \/ \E p \in PCs : HandleOffer(p)
    \/ \E p \in PCs : OfferAnswered(p)
    \/ \E p \in PCs : OfferRaised(p)
    \/ \E p \in PCs, s \in {"connecting", "connected", "failed"} : PcTransition(p, s)
    \/ \E p \in PCs : CbRun(p)
    \/ \E p \in PCs : PcCloseComplete(p)
    \/ \E p \in PCs : CbResume(p)
    \/ \E p \in PCs : recv(p)

\* The media path of a single track whose frame hook is called: one session
\* is created and followed through its pulls and its teardown
NextPull ==
    \/ \E d \in BOOLEAN : OnScreencastFrame(d)
    \/ \E p \in PCs : frame_callback = 0 /\ HandleOffer(p)
    \/ \E p \in PCs : OfferAnswered(p)
    \/ \E p \in PCs : OfferRaised(p)
    \/ \E p \in PCs, s \in {"connecting", "connected", "failed"} : PcTransition(p, s)
    \/ \E p \in PCs : CbRun(p)
    \/ \E p \in PCs : PcCloseComplete(p)
    \/ \E p \in PCs : CbResume(p)
    \/ \E p \in PCs : recv(p)
    \/ FrameHook

Next == NextWs \/ NextRtc \/ NextTrack \/ NextPull \/ NextLife

\* The steps of the handler of connection c that the event loop takes by
\* itself once they are enabled: they need no new frame from the Frame
\* Source and no new message from the peer (receive_text returns by itself
\* only by raising, on a lost connection)
WsOwnStep(c) ==
    \/ SenderGet(c)
    \/ SenderSend(c)
    \/ (conn[c] # "open" /\ ReceiverRecv(c, "malformed", TRUE))
    \/ WsGatherDone(c)
    \/ WsCloseDone(c)

Spec == Init /\ [][Next]_vars
WsSpec == InitStreaming /\ [][NextWs]_vars
RtcSpec == Init /\ [][NextRtc]_vars
TrackSpec == InitStreaming /\ [][NextTrack]_vars
PullSpec == InitStreaming /\ [][NextPull]_vars
LifeSpec == Init /\ [][NextLife]_vars

-----------------------------------------------------------------------------
\* Properties of the byte-stream side

\* C1 (drop-oldest): whenever a listener reads its queue, the frame it gets
\* is the most recently published one, however many frames were published
\* since its previous read; an earlier frame is never read.
DropOldest ==
    [][\A c \in Conns :
          (sender[c] = "get" /\ sender'[c] = "send") => senderFrame'[c] = last_frame]_vars

\* A listener reads for the first time after two frames were published, and
\* gets the second
DropOldestWitness ==
    \E c \in Conns : sender[c] = "send" /\ senderFrame[c] = 2 /\ lastSent[c] = 0

\* C2 (fan-out isolation): the broadcast of a frame is one step that cannot
\* suspend, and when it is over every listener registered at that moment
\* holds exactly the new frame, whether its slot was full or empty and
\* whether or not the other listeners ever read.
FanOutIsolation ==
    [][last_frame' # last_frame =>
          /\ listeners' = listeners
          /\ \A q \in listeners' : queue'[q] = <<last_frame'>>]_vars

\* Two listeners hold the second or a later frame: one has read before, the
\* other has never read
FanOutWitness ==
    \E b, c \in Conns :
        /\ b # c
        /\ {WsQ(b), WsQ(c)} \subseteq listeners
        /\ last_frame >= 2
        /\ queue[WsQ(b)] = <<last_frame>>
        /\ queue[WsQ(c)] = <<last_frame>>
        /\ lastSent[b] > 0
        /\ sender[c] = "get" /\ lastSent[c] = 0

\* C3 (no orphan listeners): a /ws handler that has finished has called
\* remove_listener exactly once and its queue is no longer registered; when
\* every handler that was started has finished, no listener is registered.
NoOrphanListeners ==
    /\ \A c \in Conns :
          wsState[c] = "done" => removeCalls[c] = 1 /\ WsQ(c) \notin listeners
    /\ (\A c \in Conns : wsState[c] \in {"idle", "done"}) => Cardinality(listeners) = 0

\* Every handler has finished and unregistered once, one of them after it
\* wrote frames
NoOrphanWitness ==
    /\ \A c \in Conns : wsState[c] = "done" /\ removeCalls[c] = 1
    /\ \E c \in Conns : lastSent[c] > 0
    /\ listeners = {}

\* C4 (byte-stream deactivation): once the send loop or the receive loop of
\* a connection has terminated, the handler goes on to cancel the other
\* loop, unregister the listener and close the connection by itself: until
\* the handler has finished with the listener unregistered and the
\* connection closed, one of its own steps is enabled, with no further frame
\* and no further message.
Deactivation ==
    \A c \in Conns :
        (sender[c] = "done" \/ receiver[c] = "done") =>
            \/ wsState[c] = "done" /\ WsQ(c) \notin listeners /\ conn[c] = "closed"
            \/ ENABLED WsOwnStep(c)

\* C5 (receive-loop resilience): the receive loop of a connection ends only
\* when the transport has failed; a malformed message or a failure of the
\* Input Sink does not end it.
ReceiveLoopResilience ==
    [][\A c \in Conns :
          (receiver[c] = "recv" /\ receiver'[c] = "done") => conn[c] # "open"]_vars

-----------------------------------------------------------------------------
\* Properties of the media side

\* No callback of the connection is scheduled or in progress
Quiet(p) == cbPending[p] = 0 /\ cbWaiting[p] = 0 /\ closer[p] = "none"

\* C6 (session listener accounting): the track of a session whose offer was
\* answered holds a registration in the Broadcaster until the session
\* reaches a terminal state, and none once the session is torn down.
SessionListenerAccounting ==
    \A p \in PCs :
        /\ (offer[p] = "answered" /\ pcState[p] \notin Terminal) => TrackQ(p) \in listeners
        /\ (pcState[p] \in Terminal /\ Quiet(p)) => TrackQ(p) \notin listeners

\* C7 (media-track frame delivery): a pull that is pending when the Frame
\* Source publishes a frame is not left suspended: the frame is available
\* to it, so that the pull can return.
MediaTrackDelivery ==
    \A p \in PCs :
        (recvPos[p] = "get" /\ last_frame > recvSince[p]) => ENABLED recv(p)

\* C8 (session terminal teardown): once a session is in a terminal state
\* and its callbacks have run, its track is marked ended, it is out of the
\* active set and its transport is closed.
TerminalTeardown ==
    \A p \in PCs :
        (pcState[p] \in Terminal /\ Quiet(p)) =>
            /\ ended[p]
            /\ p \notin pcs
            /\ pcClose[p] = "closed"

\* What the callback does guarantee of C8: the session is out of the active
\* set and its transport is closed
TeardownRemovesAndCloses ==
    \A p \in PCs :
        (pcState[p] \in Terminal /\ Quiet(p)) => (p \notin pcs /\ pcClose[p] = "closed")

\* C9 (idempotent teardown): the transport of a session is closed at most
\* once and no callback raises, however many failure and closure signals
\* the session gets and whether or not shutdown closes it at the same time;
\* once the callbacks have run the state is that of a single teardown.
IdempotentTeardown ==
    /\ ~rtcError
    /\ \A p \in PCs :
          /\ closeEffects[p] <= 1
          /\ (pcState[p] \in Terminal /\ Quiet(p)) =>
                (p \notin pcs /\ pcClose[p] = "closed" /\ closeEffects[p] = 1)

\* A session failed, its closure has completed, and both another callback
\* and the close() of shutdown were waiting for that closure
IdempotentTeardownWitness ==
    \E p \in PCs :
        /\ pcClose[p] = "closed"
        /\ closeEffects[p] = 1
        /\ cbWaiting[p] > 0
        /\ p \in shStarted \ shDone

\* C10 (shutdown): when shutdown returns, the closure of every session that
\* was in the active set when it was called has completed and the active
\* set is empty; it returns without waiting only when the set was empty.
ShutdownWaits ==
    [][(sh # "returned" /\ sh' = "returned") =>
          /\ \A p \in shTargets' : pcClose'[p] = "closed"
          /\ pcs' = {}
          /\ (sh = "idle" => pcs = {})
          /\ rtcError' = rtcError]_vars

\* shutdown has returned after closing the two sessions that were active
ShutdownWitness ==
    /\ sh = "returned"
    /\ Cardinality(shTargets) = 2
    /\ \A p \in shTargets : pcClose[p] = "closed" /\ closeEffects[p] = 1

\* C11 (negotiation failure teardown): once handle_offer has raised and no
\* callback of the session is scheduled or in progress, the transport of
\* the session is closed and the session is out of the active set.
NegotiationFailureTeardown ==
    \A p \in PCs :
        (offer[p] = "raised" /\ Quiet(p)) => (p \notin pcs /\ pcClose[p] = "closed")

\* A track is a live consumer from its creation until its session is closed
LiveTrack(p) == offer[p] \in {"negotiating", "answered"} /\ pcClose[p] = "no" /\ ~ended[p]

\* A byte-stream connection is a live consumer while its two loops run
LiveConn(c) == wsState[c] = "gather"

\* C17 (consumer isolation): a step that creates a consumer or tears one
\* down leaves every other live consumer as it was: the registration and
\* the buffered slot of a byte-stream connection, the frame hook and the
\* buffered slot of a media track.
ConsumerIsolation ==
    [][(wsState' # wsState \/ offer' # offer \/ pcClose' # pcClose \/ ended' # ended) =>
          /\ \A c \in Conns :
                (LiveConn(c) /\ wsState'[c] = wsState[c]) =>
                    /\ (WsQ(c) \in listeners') = (WsQ(c) \in listeners)
                    /\ queue'[WsQ(c)] = queue[WsQ(c)]
          /\ \A p \in PCs :
                (LiveTrack(p) /\ offer'[p] = offer[p] /\ pcClose'[p] = pcClose[p]
                    /\ ended'[p] = ended[p]) =>
                    /\ (frame_callback' = p) = (frame_callback = p)
                    /\ queue'[TrackQ(p)] = queue[TrackQ(p)]]_vars

\* C19 (no session dropped unclosed): a session leaves the active set only
\* after the close of its transport has been invoked, whatever handle_offer,
\* the callbacks and shutdown do in between.
NoSessionDroppedUnclosed ==
    [][\A p \in pcs \ pcs' : pcClose[p] # "no"]_vars

-----------------------------------------------------------------------------
\* Properties of the Broadcaster and its listeners

\* C13 (per-listener ordering): a frame enters the channel of a connection
\* only in the step that publishes it, while the listener is registered;
\* the send loop writes what it took from the channel; and every frame it
\* writes was published later than the frame it wrote before. So the frames
\* written are a subsequence of the frames published while registered, with
\* no frame twice and none out of order.
PerListenerOrdering ==
    [][\A c \in Conns :
          /\ (queue'[WsQ(c)] # queue[WsQ(c)] /\ queue'[WsQ(c)] # <<>>) =>
                /\ WsQ(c) \in listeners
                /\ last_frame' > last_frame
                /\ queue'[WsQ(c)] = <<last_frame'>>
          /\ (sender[c] = "get" /\ sender'[c] = "send") =>
                senderFrame'[c] = Head(queue[WsQ(c)])
          /\ ((sender[c] = "send" /\ sender'[c] = "get") \/ lastSent'[c] # lastSent[c]) =>
                /\ senderFrame[c] > lastSent[c]
                /\ lastSent'[c] = senderFrame[c]]_vars

\* A connection has written the first frame and is writing the second,
\* while another one, registered with it, has skipped the first
PerListenerOrderingWitness ==
    \E b, c \in Conns :
        /\ b # c
        /\ lastSent[c] = 1 /\ sender[c] = "send" /\ senderFrame[c] = 2
        /\ lastSent[b] = 0 /\ queue[WsQ(b)] = <<2>>

\* C14 (bounded buffering): after every step each channel holds at most one
\* frame, whether or not its listener reads; and registering adds exactly
\* one channel, which was not registered before and is empty.
BoundedBuffering ==
    [][/\ \A q \in QueueIds : Len(queue'[q]) <= QueueMaxSize
       /\ \A c \in Conns :
             (wsState[c] = "idle" /\ wsState'[c] # "idle") =>
                 /\ WsQ(c) \notin listeners
                 /\ listeners' = listeners \cup {WsQ(c)}
                 /\ Cardinality(listeners') = Cardinality(listeners) + 1
                 /\ queue'[WsQ(c)] = <<>>]_vars

\* Two listeners are registered, two frames were published, and a listener
\* that has never read holds one frame
BoundedBufferingWitness ==
    /\ Cardinality(listeners) = 2
    /\ last_frame = 2
    /\ \E c \in Conns :
          /\ WsQ(c) \in listeners
          /\ sender[c] = "get" /\ lastSent[c] = 0
          /\ Len(queue[WsQ(c)]) = 1

-----------------------------------------------------------------------------
\* Properties of the pulls of a media track

-----------------------------------------------------------------------------
\* Properties of the Frame Source

\* C16 (single Frame Source): at most one browser instance has the handler
\* subscribed and an active screencast, whatever the interleaving of the
\* /start requests.
SingleFrameSource == Cardinality(casting) <= 1

\* C18 (frame acknowledgement): every screencast event the handler gets is
\* acknowledged, in the step that offers its frame to the listeners, with
\* or without frame data, to the Frame Source that sent the event.
FrameAcknowledgement ==
    [][(ackFor' # ackFor \/ ackVia' # ackVia \/ last_frame' # last_frame) =>
          (ackFor' # 0 /\ ackVia' = ackFor')]_vars

\* Every request but start request r and stop request s has returned
\* normally or has not been issued: the requests come one after the other
Sequential(r, s) ==
    /\ \A q \in Starts \ {r} : startPos[q] \in {"none", "returned"}
    /\ \A q \in Stops \ {s} : stopPos[q] \in {"none", "returned"}

\* C20 (start/stop lifecycle): when the requests come one after the other,
\* a /start request that returns status started leaves a Frame Source
\* running, whatever /start and /stop requests came before; and a /stop
\* request issued with no Frame Source running changes nothing.
StartStopLifecycle ==
    [][/\ \A r \in Starts :
             (Sequential(r, 0) /\ startPos[r] # "returned" /\ startPos'[r] = "returned") =>
                 casting' # {}
       /\ \A s \in Stops :
             (Sequential(0, s) /\ stopPos[s] = "none" /\ stopPos'[s] # "none"
                 /\ casting = {}) =>
                 (casting' = {} /\ dead' = dead)]_vars

=============================================================================
